---- MODULE Spec2Model ----
(***************************************************************************)
(* A model of web_monitor.py: the DNS packet callback (process_packet),    *)
(* the per-packet threads running log_visit on the shared visited_sites    *)
(* store, the three cached enrichment lookups (get_ip, get_whois_org,      *)
(* check_safety), and the dashboard's readers of the store (update_data,   *)
(* get_data_as_dataframe).                                                 *)
(*                                                                         *)
(* The program takes no lock.  Every read and every write of shared state  *)
(* (visited_sites, the record dicts, the three caches) is a step of its    *)
(* own, so the model contains every interleaving of the threads that the   *)
(* interpreter can schedule.  A record is a Python dict: an object on the  *)
(* heap that visited_sites and the threads' local `data` refer to.         *)
(***************************************************************************)
EXTENDS Integers, Sequences, FiniteSets, TLC

\* ------------------------------------------------------------ bounds ----
\* Number of threads process_packet starts (one log_visit call each).
MaxCalls == 2

\* ----------------------------------------------------- program constants
MIN_INTERVAL == 10

\* top_sites = sorted(...)[:10]
TopSites == 10

\* The static attribution field of a report row.
MONITORED_BY == "Timothy Victor Osas"

\* What time.time() can advance by between two readings: nothing, a part of
\* the debounce window, the window exactly, more than the window.
Deltas == {0, MIN_INTERVAL \div 2, MIN_INTERVAL + 1}

Calls == 1..MaxCalls
\* The record dicts there can be: the dict created by call c, if any, is
\* object c; one more for a store that is given.
MaxRecords == MaxCalls + 1

Objs  == 1..MaxRecords
NoObj == 0

\* os.getenv("GOOGLE_API_KEY"): absent, the placeholder text, or a real key.
ApiKeys == {"None", "YOUR_GOOGLE_API_KEY", "key"}

\* The three lookups of the enrichment pass.
Kinds == {"ip", "whois", "safety"}

\* ------------------------------------------------- domain normalisation
\* A name is the sequence of its labels ("www.a.com." is
\* <<"www","a","com","">>, "." is <<"","">>, "" is <<"">>).
QNames == { <<"www", "a", "com", "">>,
            <<"a", "com", "">>,
            <<"m", "b", "co", "uk">>,
            <<"localhost", "">>,
            <<"co", "uk", "">>,
            <<"", "">> }

PublicSuffixes == { <<"com">>, <<"uk">>, <<"co", "uk">> }

\* str.rstrip("."): drop every trailing dot.
RECURSIVE rstrip(_)
rstrip(s) ==
    IF Len(s) > 1 /\ s[Len(s)] = ""
    THEN rstrip(SubSeq(s, 1, Len(s) - 1))
    ELSE s

Suffix(s, n) == SubSeq(s, Len(s) - n + 1, Len(s))

\* Length of the longest public suffix the name ends with (0: none).
SuffixLen(s) ==
    LET ns == { n \in 1..Len(s) : Suffix(s, n) \in PublicSuffixes }
    IN  IF ns = {} THEN 0 ELSE CHOOSE n \in ns : \A m \in ns : m <= n

\* tldextract.extract(s).registered_domain: the label before the longest
\* public suffix, and that suffix; empty (<<>>) when either is missing.
registered_domain(s) ==
    LET n == SuffixLen(s)
    IN  IF n = 0 \/ Len(s) <= n \/ s[Len(s) - n] = ""
        THEN <<>>
        ELSE Suffix(s, n + 1)

\* The query name with its trailing dots stripped, passed on as it is.
full_domain_only(q) ==
    LET full_domain == rstrip(q)
    IN  IF Len(full_domain) >= 2 THEN full_domain ELSE <<>>

\* process_packet's path from the query name to log_visit's argument;
\* <<>> when the packet is dropped.
simple_domain(q) ==
    LET full_domain == rstrip(q)
    IN  IF Len(full_domain) >= 2     \* full_domain and '.' in full_domain
        THEN registered_domain(full_domain)
        ELSE <<>>

Domains == { simple_domain(q) : q \in QNames } \ { <<>> }

\* ------------------------------------------------------- search text ----
\* A text is the sequence of its characters.
Letters(label) ==
    CASE label = "a"   -> <<"a">>
      [] label = "b"   -> <<"b">>
      [] label = "c"   -> <<"c">>
      [] label = "co"  -> <<"c", "o">>
      [] label = "uk"  -> <<"u", "k">>
      [] label = "com" -> <<"c", "o", "m">>

\* The domain as the str it is: its labels joined by dots.
RECURSIVE text(_)
text(k) ==
    IF Len(k) = 1
    THEN Letters(k[1])
    ELSE Letters(k[1]) \o <<".">> \o text(Tail(k))

\* str.lower()
lower(s) ==
    [ n \in 1..Len(s) |->
        CASE s[n] = "A" -> "a"
          [] s[n] = "B" -> "b"
          [] s[n] = "C" -> "c"
          [] s[n] = "O" -> "o"
          [] OTHER      -> s[n] ]

\* str.strip(): drop the leading and the trailing blanks.
strip(s) ==
    LET inked == { n \in 1..Len(s) : s[n] # " " }
    IN  IF inked = {}
        THEN <<>>
        ELSE SubSeq(s, CHOOSE n \in inked : \A m \in inked : n <= m,
                       CHOOSE n \in inked : \A m \in inked : m <= n)

\* t in s
contains(t, s) ==
    \E n \in 1..(Len(s) - Len(t) + 1) : SubSeq(s, n, n + Len(t) - 1) = t

\* What the user types into the search entry.
SearchTexts == { <<>>, <<"a">>, <<" ", "B", " ">>, <<"C", "O">>, <<"x">> }

\* time.strftime("%Y-%m-%d %H:%M:%S", time.localtime(t)), for a clock that
\* starts at 1970-01-01 00:00:00 local time and stays within its first hour.
strftime(t) == << "1970-01-01 00", t \div 60, t % 60 >>

\* ------------------------------------------------------------- state ----
VARIABLES
    clock,          \* the last value time.time() returned
    apiKey,         \* GOOGLE_SAFE_BROWSING_API_KEY
    varied,         \* the collaborator whose answers vary in this run
    visited_sites,  \* key -> object: the defaultdict's entries
    heap,           \* object -> the record dict's fields
    ip_cache, whois_cache, safety_cache,
    log,            \* the VISIT lines of web_monitor.log, in order
    started,        \* threads started so far
    pc,             \* each call's position (the source line it is at)
    dom,            \* each call's argument `domain`
    now,            \* each call's local `now`
    data,           \* each call's local `data` (an object)
    tmp,            \* the value read by `data["visits"] += 1`
    ret,            \* the value a lookup is about to return
    \* observers (history, never read by the program's steps)
    accepted,       \* per domain: calls that passed the debounce check
    enrichPasses,   \* per domain: times the `visits == 1` branch was taken
    remoteCalls,    \* per lookup kind and domain: remote calls issued
    answer,         \* per call: what requests.post gave, until it is cached
    snap,           \* for a call running alone: the aggregate when it started
    overlapped,     \* whether two calls were ever in progress together
    \* the dashboard (the Tk main thread)
    order,          \* the keys of visited_sites in insertion order
    search_var,     \* the text of the search entry
    live_filter,    \* the "Live Filter" checkbox
    ui_pc,          \* the running handler's position ("idle": none)
    sorted_sites,   \* update_data: the (domain, data) pairs
    keys,           \* update_data: the sort keys computed so far
    idx,            \* the running loop's position
    filtered_sites, \* update_data: the pairs that passed the filter
    cell,           \* the part of a row read before a time.* call
    tree,           \* the rows of the table
    chart,          \* the bars and the title of the chart
    di_used,        \* get_data_as_dataframe: the dict's size at the loop's start
    report_data,    \* get_data_as_dataframe: the rows built so far
    df              \* what get_data_as_dataframe returned last

vars == << clock, apiKey, varied, answer, visited_sites, heap, ip_cache, whois_cache,
           safety_cache, log, started, pc, dom, now, data, tmp, ret,
           accepted, enrichPasses, remoteCalls, snap, overlapped,
           order, search_var, live_filter, ui_pc, sorted_sites, keys, idx,
           filtered_sites, cell, tree, chart, di_used, report_data, df >>

\* The dashboard's variables.
ui == << search_var, live_filter, ui_pc, sorted_sites, keys, idx,
         filtered_sites, cell, tree, chart, di_used, report_data, df >>

\* The defaultdict's factory (lines 89-92).
DefaultRecord ==
    [ visits |-> 0, ip |-> "N/A", org |-> "N/A", safety |-> "Not Checked",
      first_seen |-> 0, last_seen |-> 0 ]

Range(f) == { f[x] : x \in DOMAIN f }

\* The store as the program sees it: key -> fields.
Store == [ d \in DOMAIN visited_sites |-> heap[visited_sites[d]] ]

Aggregate == << Store, ip_cache, whois_cache, safety_cache, log >>

NoSnap == [ call |-> 0, agg |-> <<>> ]

InProgress(c) == pc[c] \notin {"idle", "done", "raised"}

\* The dicts the running dashboard handler holds in its pairs.
UiRefs ==
    { sorted_sites[n][2] : n \in 1..Len(sorted_sites) }
       \cup (IF ui_pc = "L335" THEN { cell[2] } ELSE {})

\* A dict nothing refers to any more is freed.
Collect(h, vs, dt) ==
    [ o \in Objs |-> IF o \in Range(vs) \/ o \in Range(dt) \/ o \in UiRefs
                     THEN h[o] ELSE DefaultRecord ]

\* The chart before anything is drawn (ax.clear()).
NoChart == [ bars |-> <<>>, title |-> <<>> ]

\* What get_data_as_dataframe returns for an empty store.
NoFrame == [ returned |-> "None", rows |-> <<>> ]

\* No handler is running, and nothing is listed or drawn yet.
InitTable ==
    /\ ui_pc = "idle"
    /\ sorted_sites = <<>>
    /\ keys = <<>>
    /\ idx = 0
    /\ filtered_sites = <<>>
    /\ cell = <<>>
    /\ tree = <<>>
    /\ chart = NoChart
    /\ di_used = 0
    /\ report_data = <<>>
    /\ df = NoFrame

\* MonitorDashboard.__init__: an empty search entry, the live filter on, and
\* one update_data over what the store holds (nothing to list yet).
InitDashboard ==
    /\ search_var = <<>>
    /\ live_filter = TRUE
    /\ InitTable

Init ==
    /\ clock = 0
    /\ apiKey \in ApiKeys
    /\ varied \in Kinds
    /\ visited_sites = <<>>
    /\ heap = [ o \in Objs |-> DefaultRecord ]
    /\ ip_cache = <<>>
    /\ whois_cache = <<>>
    /\ safety_cache = <<>>
    /\ log = <<>>
    /\ started = 0
    /\ pc = [ c \in Calls |-> "idle" ]
    /\ dom = [ c \in Calls |-> <<>> ]
    /\ now = [ c \in Calls |-> 0 ]
    /\ data = [ c \in Calls |-> NoObj ]
    /\ tmp = [ c \in Calls |-> 0 ]
    /\ ret = [ c \in Calls |-> "" ]
    /\ accepted = [ d \in Domains |-> 0 ]
    /\ enrichPasses = [ d \in Domains |-> 0 ]
    /\ remoteCalls = [ k \in Kinds |-> [ d \in Domains |-> 0 ] ]
    /\ answer = [ c \in Calls |-> "" ]
    /\ snap = NoSnap
    /\ overlapped = FALSE
    /\ order = <<>>
    /\ InitDashboard

\* ----------------------------------------------------------- helpers ----
Put(f, k, v) == [ x \in DOMAIN f \cup {k} |-> IF x = k THEN v ELSE f[x] ]

Goto(c, l) == pc' = [pc EXCEPT ![c] = l]

SetField(c, f, v) == heap' = [heap EXCEPT ![data[c]][f] = v]

\* The call ends (a return, or an exception leaving log_visit): its locals
\* are gone, and with them the last reference a dict may have had.
Finish(c, l) ==
    /\ Goto(c, l)
    /\ data' = [data EXCEPT ![c] = NoObj]
    /\ tmp' = [tmp EXCEPT ![c] = 0]
    /\ ret' = [ret EXCEPT ![c] = ""]
    /\ snap' = NoSnap

\* ---------------------------------------------------- process_packet ----
\* One captured packet on udp port 53: unless it is a DNS query (line 175),
\* normalise the query name and, unless the name is dropped, start a thread
\* running log_visit(simple_domain).
process_packet ==
    /\ started < MaxCalls
    /\ \E isQuery \in BOOLEAN, q \in QNames :
         LET d == IF isQuery THEN simple_domain(q) ELSE <<>>
             c == started + 1
             running == { x \in Calls : InProgress(x) }
         IN  IF d = <<>>
             THEN UNCHANGED vars
             ELSE /\ started' = c
                  /\ Goto(c, "L151")
                  /\ dom' = [dom EXCEPT ![c] = d]
                  /\ snap' = IF running = {}
                             THEN [ call |-> c, agg |-> Aggregate ]
                             ELSE NoSnap
                  /\ overlapped' = (overlapped \/ running # {})
                  /\ UNCHANGED << ui, order, clock, apiKey, varied, answer, visited_sites, heap, ip_cache,
                                  whois_cache, safety_cache, log, now, data, tmp,
                                  ret, accepted, enrichPasses, remoteCalls >>

\* --------------------------------------------------------- log_visit ----
\* now = time.time()
ReadClock(c) ==
    /\ pc[c] = "L151"
    /\ \E d \in Deltas :
         /\ clock' = clock + d
         /\ now' = [now EXCEPT ![c] = clock + d]
    /\ Goto(c, "L152")
    /\ UNCHANGED << ui, order, apiKey, varied, answer, visited_sites, heap, ip_cache, whois_cache,
                    safety_cache, log, started, dom, data, tmp, ret, accepted,
                    enrichPasses, remoteCalls, snap, overlapped >>

\* data = visited_sites[domain]: the key is there, or defaultdict's
\* __missing__ calls the factory (a Python lambda, where threads can switch)
\* and then stores what it built.
Lookup(c) ==
    /\ pc[c] = "L152"
    /\ IF dom[c] \in DOMAIN visited_sites
       THEN /\ data' = [data EXCEPT ![c] = visited_sites[dom[c]]]
            /\ Goto(c, "L154")
       ELSE /\ data' = [data EXCEPT ![c] = c]
            /\ Goto(c, "L152s")
    /\ UNCHANGED << ui, order, clock, apiKey, varied, answer, visited_sites, heap, ip_cache, whois_cache,
                    safety_cache, log, started, dom, now, tmp, ret, accepted,
                    enrichPasses, remoteCalls, snap, overlapped >>

\* __missing__: self[key] = value, whatever another thread stored meanwhile.
StoreDefault(c) ==
    /\ pc[c] = "L152s"
    /\ visited_sites' = Put(visited_sites, dom[c], data[c])
    /\ order' = IF dom[c] \in DOMAIN visited_sites
                THEN order ELSE Append(order, dom[c])
    /\ heap' = Collect(heap, visited_sites', data)
    /\ Goto(c, "L154")
    /\ UNCHANGED << ui, clock, apiKey, varied, answer, ip_cache, whois_cache, safety_cache, log,
                    started, dom, now, data, tmp, ret, accepted, enrichPasses,
                    remoteCalls, snap, overlapped >>

\* The debounce test of line 154.
Discards(c) == now[c] - heap[data[c]].last_seen < MIN_INTERVAL

\* if now - data["last_seen"] < MIN_INTERVAL: return
Debounce(c) ==
    /\ pc[c] = "L154"
    /\ IF Discards(c)
       THEN /\ Finish(c, "done")
            /\ heap' = Collect(heap, visited_sites, data')
            /\ UNCHANGED accepted
       ELSE /\ Goto(c, "L157r")
            /\ accepted' = [accepted EXCEPT ![dom[c]] = @ + 1]
            /\ UNCHANGED << heap, data, tmp, ret, snap >>
    /\ UNCHANGED << ui, order, clock, apiKey, varied, answer, visited_sites, ip_cache, whois_cache,
                    safety_cache, log, started, dom, now, enrichPasses,
                    remoteCalls, overlapped >>

\* data["visits"] += 1, the read
ReadVisits(c) ==
    /\ pc[c] = "L157r"
    /\ tmp' = [tmp EXCEPT ![c] = heap[data[c]].visits]
    /\ Goto(c, "L157w")
    /\ UNCHANGED << ui, order, clock, apiKey, varied, answer, visited_sites, heap, ip_cache, whois_cache,
                    safety_cache, log, started, dom, now, data, ret, accepted,
                    enrichPasses, remoteCalls, snap, overlapped >>

\* data["visits"] += 1, the write
WriteVisits(c) ==
    /\ pc[c] = "L157w"
    /\ SetField(c, "visits", tmp[c] + 1)
    /\ tmp' = [tmp EXCEPT ![c] = 0]
    /\ Goto(c, "L158")
    /\ UNCHANGED << ui, order, clock, apiKey, varied, answer, visited_sites, ip_cache, whois_cache,
                    safety_cache, log, started, dom, now, data, ret, accepted,
                    enrichPasses, remoteCalls, snap, overlapped >>

\* data["last_seen"] = now
WriteLastSeen(c) ==
    /\ pc[c] = "L158"
    /\ SetField(c, "last_seen", now[c])
    /\ Goto(c, "L160")
    /\ UNCHANGED << ui, order, clock, apiKey, varied, answer, visited_sites, ip_cache, whois_cache,
                    safety_cache, log, started, dom, now, data, tmp, ret,
                    accepted, enrichPasses, remoteCalls, snap, overlapped >>

\* if data["visits"] == 1:
FirstVisitTest(c) ==
    /\ pc[c] = "L160"
    /\ IF heap[data[c]].visits = 1
       THEN /\ Goto(c, "L161")
            /\ enrichPasses' = [enrichPasses EXCEPT ![dom[c]] = @ + 1]
       ELSE /\ Goto(c, "L170")
            /\ UNCHANGED enrichPasses
    /\ UNCHANGED << ui, order, clock, apiKey, varied, answer, visited_sites, heap, ip_cache, whois_cache,
                    safety_cache, log, started, dom, now, data, tmp, ret,
                    accepted, remoteCalls, snap, overlapped >>

\* data["first_seen"] = now
WriteFirstSeen(c) ==
    /\ pc[c] = "L161"
    /\ SetField(c, "first_seen", now[c])
    /\ Goto(c, "L100")
    /\ UNCHANGED << ui, order, clock, apiKey, varied, answer, visited_sites, ip_cache, whois_cache,
                    safety_cache, log, started, dom, now, data, tmp, ret,
                    accepted, enrichPasses, remoteCalls, snap, overlapped >>

\* ------------------------------------------------------------ get_ip ----
\* What socket.gethostbyname can do: return an address, raise
\* socket.gaierror, or raise something else (UnicodeError for a label the
\* IDNA codec rejects, ValueError for an embedded NUL).
ResolveOutcomes == {"address", "gaierror", "other error"}

\* The answers a collaborator can give in this run: any of them for the one
\* that varies, the plain answer for the other two.
Answers(kind, all, plain) == IF varied = kind THEN all ELSE {plain}

\* Lines 102-105, for the outcomes that do not leave get_ip by an exception.
resolved_ip(o) == IF o = "address" THEN "IP" ELSE "Unknown IP"

\* if domain in ip_cache: return ip_cache[domain]
\* try: ip = socket.gethostbyname(domain)
\* except socket.gaierror: ip = "Unknown IP"
\* (the resolver call reads and writes nothing of the program's, so it is
\* taken in the same step as the cache test that leads to it)
get_ip_lookup(c) ==
    /\ pc[c] = "L100"
    /\ IF dom[c] \in DOMAIN ip_cache
       THEN /\ ret' = [ret EXCEPT ![c] = ip_cache[dom[c]]]
            /\ Goto(c, "L162")
            /\ UNCHANGED << heap, data, tmp, snap, remoteCalls >>
       ELSE /\ remoteCalls' = [remoteCalls EXCEPT !["ip"][dom[c]] = @ + 1]
            /\ \E o \in Answers("ip", ResolveOutcomes, "address") :
                 IF o = "other error"
                 THEN /\ Finish(c, "raised")
                      /\ heap' = Collect(heap, visited_sites, data')
                 ELSE /\ ret' = [ret EXCEPT ![c] = resolved_ip(o)]
                      /\ Goto(c, "L106")
                      /\ UNCHANGED << heap, data, tmp, snap >>
    /\ UNCHANGED << ui, order, clock, apiKey, varied, answer, visited_sites, ip_cache, whois_cache,
                    safety_cache, log, started, dom, now, accepted,
                    enrichPasses, overlapped >>

\* ip_cache[domain] = ip
get_ip_store(c) ==
    /\ pc[c] = "L106"
    /\ ip_cache' = Put(ip_cache, dom[c], ret[c])
    /\ Goto(c, "L162")
    /\ UNCHANGED << ui, order, clock, apiKey, varied, answer, visited_sites, heap, whois_cache,
                    safety_cache, log, started, dom, now, data, tmp, ret,
                    accepted, enrichPasses, remoteCalls, snap, overlapped >>

\* data["ip"] = get_ip(domain), the assignment
WriteIp(c) ==
    /\ pc[c] = "L162"
    /\ SetField(c, "ip", ret[c])
    /\ ret' = [ret EXCEPT ![c] = ""]
    /\ Goto(c, "L111")
    /\ UNCHANGED << ui, order, clock, apiKey, varied, answer, visited_sites, ip_cache, whois_cache,
                    safety_cache, log, started, dom, now, data, tmp,
                    accepted, enrichPasses, remoteCalls, snap, overlapped >>

\* ----------------------------------------------------- get_whois_org ----
\* whois.whois(domain): an organisation, none, or any exception.
WhoisOutcomes == {"org", "no org", "error"}

\* Lines 113-120: the org of the answer, "Unknown Org" without one,
\* "WHOIS Error" on any exception.
whois_org(o) ==
    CASE o = "org"    -> "Org"
      [] o = "no org" -> "Unknown Org"
      [] o = "error"  -> "WHOIS Error"

\* if domain in whois_cache: return whois_cache[domain]
\* and otherwise the registry query of lines 113-120
get_whois_org_lookup(c) ==
    /\ pc[c] = "L111"
    /\ IF dom[c] \in DOMAIN whois_cache
       THEN /\ ret' = [ret EXCEPT ![c] = whois_cache[dom[c]]]
            /\ Goto(c, "L163")
            /\ UNCHANGED remoteCalls
       ELSE /\ remoteCalls' = [remoteCalls EXCEPT !["whois"][dom[c]] = @ + 1]
            /\ \E o \in Answers("whois", WhoisOutcomes, "org") : ret' = [ret EXCEPT ![c] = whois_org(o)]
            /\ Goto(c, "L121")
    /\ UNCHANGED << ui, order, clock, apiKey, varied, answer, visited_sites, heap, ip_cache, whois_cache,
                    safety_cache, log, started, dom, now, data, tmp, accepted,
                    enrichPasses, snap, overlapped >>

\* whois_cache[domain] = org
get_whois_org_store(c) ==
    /\ pc[c] = "L121"
    /\ whois_cache' = Put(whois_cache, dom[c], ret[c])
    /\ Goto(c, "L163")
    /\ UNCHANGED << ui, order, clock, apiKey, varied, answer, visited_sites, heap, ip_cache,
                    safety_cache, log, started, dom, now, data, tmp, ret,
                    accepted, enrichPasses, remoteCalls, snap, overlapped >>

\* data["org"] = get_whois_org(domain), the assignment
WriteOrg(c) ==
    /\ pc[c] = "L163"
    /\ SetField(c, "org", ret[c])
    /\ ret' = [ret EXCEPT ![c] = ""]
    /\ Goto(c, "L126")
    /\ UNCHANGED << ui, order, clock, apiKey, varied, answer, visited_sites, ip_cache, whois_cache,
                    safety_cache, log, started, dom, now, data, tmp,
                    accepted, enrichPasses, remoteCalls, snap, overlapped >>

\* ------------------------------------------------------ check_safety ----
\* requests.post(...): a response (its status, whether its JSON body lists
\* matches), a requests.exceptions.RequestException (transport error or
\* timeout), or a 200 response whose JSON body is not an object, on which
\* .get raises AttributeError.
PostOutcomes == { "200 no matches", "200 matches", "500",
                  "RequestException", "200 bad body" }

\* Line 142-145.
safety_of(o) ==
    CASE o = "RequestException" -> "API Error"
      [] o = "200 no matches"   -> "Safe"
      [] OTHER                  -> "Malicious"

\* Line 128: the only value of the key for which no call is attempted.
KeyMissing == apiKey = "YOUR_GOOGLE_API_KEY"

\* if domain in safety_cache: return safety_cache[domain]
\* if GOOGLE_SAFE_BROWSING_API_KEY == "YOUR_GOOGLE_API_KEY":
\*     return "API Key Missing"
\* response = requests.post(url, json=payload, timeout=5) and lines 142-145
check_safety_lookup(c) ==
    /\ pc[c] = "L126"
    /\ IF dom[c] \in DOMAIN safety_cache
       THEN /\ ret' = [ret EXCEPT ![c] = safety_cache[dom[c]]]
            /\ Goto(c, "L164")
            /\ UNCHANGED << heap, data, tmp, snap, remoteCalls, answer >>
       ELSE IF KeyMissing
            THEN /\ ret' = [ret EXCEPT ![c] = "API Key Missing"]
                 /\ Goto(c, "L164")
                 /\ UNCHANGED << heap, data, tmp, snap, remoteCalls, answer >>
            ELSE /\ remoteCalls' = [remoteCalls EXCEPT !["safety"][dom[c]] = @ + 1]
                 /\ \E o \in Answers("safety", PostOutcomes, "200 no matches") :
                      IF o = "200 bad body"
                      THEN /\ Finish(c, "raised")
                           /\ heap' = Collect(heap, visited_sites, data')
                           /\ UNCHANGED answer
                      ELSE /\ answer' = [answer EXCEPT ![c] = o]
                           /\ ret' = [ret EXCEPT ![c] = safety_of(o)]
                           /\ Goto(c, "L146")
                           /\ UNCHANGED << heap, data, tmp, snap >>
    /\ UNCHANGED << ui, order, clock, apiKey, varied, visited_sites, ip_cache, whois_cache,
                    safety_cache, log, started, dom, now, accepted,
                    enrichPasses, overlapped >>

\* safety_cache[domain] = safety
check_safety_store(c) ==
    /\ pc[c] = "L146"
    /\ safety_cache' = Put(safety_cache, dom[c], ret[c])
    /\ answer' = [answer EXCEPT ![c] = ""]
    /\ Goto(c, "L164")
    /\ UNCHANGED << ui, order, clock, apiKey, varied, visited_sites, heap, ip_cache,
                    whois_cache, log, started, dom, now, data, tmp, ret,
                    accepted, enrichPasses, remoteCalls, snap, overlapped >>

\* data["safety"] = check_safety(domain), the assignment
WriteSafety(c) ==
    /\ pc[c] = "L164"
    /\ SetField(c, "safety", ret[c])
    /\ ret' = [ret EXCEPT ![c] = ""]
    /\ Goto(c, "L170")
    /\ UNCHANGED << ui, order, clock, apiKey, varied, answer, visited_sites, ip_cache, whois_cache,
                    safety_cache, log, started, dom, now, data, tmp,
                    accepted, enrichPasses, remoteCalls, snap, overlapped >>

\* logging.info(f"VISIT | Domain: ..., IP: ..., Org: ..., Safety: ...")
\* and the return.
LogLine(c) ==
    /\ pc[c] = "L170"
    /\ log' = Append(log, << dom[c], heap[data[c]].ip, heap[data[c]].org,
                             heap[data[c]].safety >>)
    /\ Finish(c, "done")
    /\ heap' = Collect(heap, visited_sites, data')
    /\ UNCHANGED << ui, order, clock, apiKey, varied, answer, visited_sites, ip_cache, whois_cache,
                    safety_cache, started, dom, now, accepted, enrichPasses,
                    remoteCalls, overlapped >>

log_visit(c) ==
    \/ ReadClock(c)
    \/ Lookup(c)
    \/ StoreDefault(c)
    \/ Debounce(c)
    \/ ReadVisits(c)
    \/ WriteVisits(c)
    \/ WriteLastSeen(c)
    \/ FirstVisitTest(c)
    \/ WriteFirstSeen(c)
    \/ get_ip_lookup(c)
    \/ get_ip_store(c)
    \/ WriteIp(c)
    \/ get_whois_org_lookup(c)
    \/ get_whois_org_store(c)
    \/ WriteOrg(c)
    \/ check_safety_lookup(c)
    \/ check_safety_store(c)
    \/ WriteSafety(c)
    \/ LogLine(c)

Next ==
    \/ process_packet
    \/ \E c \in Calls : log_visit(c)

Spec == Init /\ [][Next]_vars

\* ------------------------------------------------------- update_data ----
\* search_term = self.search_var.get().strip().lower()
search_term == lower(strip(search_var))

\* live_mode = self.live_filter.get()
live_mode == live_filter

\* Every variable but the dashboard's.
core == << clock, apiKey, varied, answer, visited_sites, heap, ip_cache,
           whois_cache, safety_cache, log, started, pc, dom, now, data, tmp,
           ret, accepted, enrichPasses, remoteCalls, snap, overlapped, order >>

\* list(visited_sites.items()): the pairs in insertion order.
items == [ n \in 1..Len(order) |-> << order[n], visited_sites[order[n]] >> ]

\* sorted(pairs, key=..., reverse=True) for the keys ks as they were
\* computed: descending, equal keys in their original order.
sorted_by(pairs, ks) ==
    LET rank(a) == 1 + Cardinality({ b \in 1..Len(ks) :
                         ks[b] > ks[a] \/ (ks[b] = ks[a] /\ b < a) })
    IN  [ r \in 1..Len(pairs) |->
            pairs[CHOOSE a \in 1..Len(pairs) : rank(a) = r] ]

\* Lines 284-295 up to the list sorted() builds from the items: the rows of
\* the table are deleted and the pairs taken.
update_data_begin ==
    /\ ui_pc = "idle"
    /\ tree' = <<>>
    /\ sorted_sites' = items
    /\ keys' = <<>>
    /\ filtered_sites' = <<>>
    /\ idx' = 1
    /\ ui_pc' = IF items = <<>> THEN "L307" ELSE "L294"
    /\ UNCHANGED << cell, chart, di_used, report_data, df >>

\* A refresh that looks the domains up by key in the defaultdict.
update_data_by_key ==
    /\ update_data_begin
    /\ IF Domains \subseteq DOMAIN visited_sites
          \/ MaxRecords \in Range(visited_sites)
       THEN UNCHANGED << visited_sites, order >>
       ELSE \E d \in Domains \ DOMAIN visited_sites :
               /\ visited_sites' = Put(visited_sites, d, MaxRecords)
               /\ order' = Append(order, d)
    /\ UNCHANGED << clock, apiKey, varied, answer, heap, ip_cache,
                    whois_cache, safety_cache, log, started, pc, dom, now,
                    data, tmp, ret, accepted, enrichPasses, remoteCalls,
                    snap, overlapped, search_var, live_filter >>

\* self.root.after(5000, self.update_data), and <Return> in the entry.
update_data ==
    /\ update_data_begin
    /\ UNCHANGED << core, search_var, live_filter >>

\* _on_search_key: the entry's text has changed to t.
on_search_key ==
    /\ ui_pc = "idle"
    /\ \E t \in SearchTexts : search_var' = t
    /\ IF live_filter
       THEN update_data_begin
       ELSE UNCHANGED << ui_pc, sorted_sites, keys, idx, filtered_sites, cell,
                         tree, chart, di_used, report_data, df >>
    /\ UNCHANGED << core, live_filter >>

\* clear_search
clear_search ==
    /\ search_var' = <<>>
    /\ update_data_begin
    /\ UNCHANGED << core, live_filter >>

\* The "Live Filter" checkbox is clicked (command=self.update_data).
toggle_live_filter ==
    /\ live_filter' = ~live_filter
    /\ update_data_begin
    /\ UNCHANGED << core, search_var >>

\* key=lambda item: item[1]['last_seen'], for one pair; after the last
\* pair the list is sorted.
sort_key ==
    /\ ui_pc = "L294"
    /\ LET n  == Len(keys) + 1
           ks == Append(keys, heap[sorted_sites[n][2]].last_seen)
       IN  IF n < Len(sorted_sites)
           THEN /\ keys' = ks
                /\ UNCHANGED << sorted_sites, ui_pc >>
           ELSE /\ sorted_sites' = sorted_by(sorted_sites, ks)
                /\ keys' = <<>>
                /\ ui_pc' = "L298"
    /\ UNCHANGED << core, search_var, live_filter, idx, filtered_sites, cell,
                    tree, chart, di_used, report_data, df >>

\* The next pair of the loop of line 298, or the chart after the last one.
next_pair ==
    IF idx < Len(sorted_sites)
    THEN idx' = idx + 1 /\ ui_pc' = "L298"
    ELSE idx' = idx /\ ui_pc' = "L307"

\* Lines 299-303: the filter test, filtered_sites.append and first_seen_str.
filter_pair ==
    /\ ui_pc = "L298"
    /\ LET domain == sorted_sites[idx][1]
           record == heap[sorted_sites[idx][2]]
       IN  IF /\ live_mode
              /\ search_term # <<>>
              /\ ~contains(search_term, lower(text(domain)))
           THEN /\ next_pair
                /\ UNCHANGED << filtered_sites, cell >>
           ELSE /\ filtered_sites' = Append(filtered_sites, sorted_sites[idx])
                /\ cell' = strftime(record.first_seen)
                /\ ui_pc' = "L304"
                /\ idx' = idx
    /\ UNCHANGED << core, search_var, live_filter, sorted_sites, keys, tree,
                    chart, di_used, report_data, df >>

\* Lines 304-305: self.tree.insert(...)
tree_insert ==
    /\ ui_pc = "L304"
    /\ LET domain == sorted_sites[idx][1]
           record == heap[sorted_sites[idx][2]]
       IN  tree' = Append(tree, << domain, record.visits, record.ip,
                                   record.org, record.safety, cell >>)
    /\ cell' = <<>>
    /\ next_pair
    /\ UNCHANGED << core, search_var, live_filter, sorted_sites, keys,
                    filtered_sites, chart, di_used, report_data, df >>

\* Lines 307-325: the bars of the (at most TopSites) most visited listed
\* sites and the title; the handler returns and its locals are gone.
draw_chart ==
    /\ ui_pc = "L307"
    /\ LET visits    == [ n \in 1..Len(filtered_sites) |->
                            heap[filtered_sites[n][2]].visits ]
           by_visits == sorted_by(filtered_sites, visits)
           top_sites == SubSeq(by_visits, 1,
                               IF Len(by_visits) < TopSites
                               THEN Len(by_visits) ELSE TopSites)
       IN  chart' = IF top_sites = <<>>
                    THEN NoChart
                    ELSE [ bars  |-> [ n \in 1..Len(top_sites) |->
                                        << top_sites[n][1],
                                           heap[top_sites[n][2]].visits >> ],
                           title |-> IF search_term # <<>>
                                     THEN << "Filtered", search_term >>
                                     ELSE << "Top 10" >> ]
    /\ ui_pc' = "idle"
    /\ sorted_sites' = <<>>
    /\ filtered_sites' = <<>>
    /\ idx' = 0
    /\ UNCHANGED << core, search_var, live_filter, keys, cell, tree, di_used,
                    report_data, df >>

\* --------------------------------------------- get_data_as_dataframe ----
\* Lines 328-331 (called by save_report_csv, _excel and _pdf): None for an
\* empty store, else the loop over visited_sites.items() starts.
get_data_as_dataframe ==
    /\ ui_pc = "idle"
    /\ IF order = <<>>
       THEN /\ df' = NoFrame
            /\ UNCHANGED << ui_pc, idx, di_used, report_data >>
       ELSE /\ report_data' = <<>>
            /\ di_used' = Len(order)
            /\ idx' = 1
            /\ ui_pc' = "L331"
            /\ UNCHANGED df
    /\ UNCHANGED << core, search_var, live_filter, sorted_sites, keys,
                    filtered_sites, cell, tree, chart >>

\* The loop's next(): RuntimeError when the dict has grown since the loop
\* started, the DataFrame of the rows after the last item, else the next
\* (domain, data) and the fields read before time.localtime is called.
next_item ==
    /\ ui_pc = "L331"
    /\ IF Len(order) # di_used
       THEN /\ df' = [ returned |-> "RuntimeError", rows |-> <<>> ]
            /\ ui_pc' = "idle"
            /\ report_data' = <<>>
            /\ idx' = 0
            /\ di_used' = 0
            /\ UNCHANGED cell
       ELSE IF idx > di_used
            THEN /\ df' = [ returned |-> "DataFrame", rows |-> report_data ]
                 /\ ui_pc' = "idle"
                 /\ report_data' = <<>>
                 /\ idx' = 0
                 /\ di_used' = 0
                 /\ UNCHANGED cell
            ELSE /\ LET domain == order[idx]
                        record == heap[visited_sites[domain]]
                    IN  cell' = << domain, visited_sites[domain],
                                   record.visits, record.ip, record.org,
                                   record.safety >>
                 /\ ui_pc' = "L335"
                 /\ UNCHANGED << df, report_data, idx, di_used >>
    /\ UNCHANGED << core, search_var, live_filter, sorted_sites, keys,
                    filtered_sites, tree, chart >>

\* "First Seen": time.strftime(...), and report_data.append
append_row ==
    /\ ui_pc = "L335"
    /\ report_data' = Append(report_data,
                             << cell[1], cell[3], cell[4], cell[5], cell[6],
                                strftime(heap[cell[2]].first_seen),
                                MONITORED_BY >>)
    /\ cell' = <<>>
    /\ idx' = idx + 1
    /\ ui_pc' = "L331"
    /\ UNCHANGED << core, search_var, live_filter, sorted_sites, keys,
                    filtered_sites, tree, chart, di_used, df >>

\* One step of the dashboard's thread.
dashboard ==
    \/ update_data
    \/ sort_key
    \/ filter_pair
    \/ tree_insert
    \/ draw_chart
    \/ get_data_as_dataframe
    \/ next_item
    \/ append_row

\* ------------------------------------------- the monitor with its dashboard
\* The sniffer's threads and the dashboard's thread together, the search
\* search entry and the checkbox left as the user has set them.  The run
\* starts in the state Spec reaches when the first thread has ingested
\* "a.com" at time FirstVisit, with a real key and every lookup answered.
FirstVisit == MIN_INTERVAL + 1

InitUI ==
    LET a_com == << "a", "com" >>
        first == [ d \in Domains |-> IF d = a_com THEN 1 ELSE 0 ]
    IN  /\ clock = FirstVisit
        /\ apiKey = "key"
        /\ varied = "whois"
        /\ visited_sites = Put(<<>>, a_com, 1)
        /\ order = << a_com >>
        /\ heap = [ o \in Objs |->
                      IF o = 1
                      THEN [ visits |-> 1, ip |-> resolved_ip("address"),
                             org |-> whois_org("org"),
                             safety |-> safety_of("200 no matches"),
                             first_seen |-> FirstVisit,
                             last_seen |-> FirstVisit ]
                      ELSE DefaultRecord ]
        /\ ip_cache = Put(<<>>, a_com, resolved_ip("address"))
        /\ whois_cache = Put(<<>>, a_com, whois_org("org"))
        /\ safety_cache = Put(<<>>, a_com, safety_of("200 no matches"))
        /\ log = << << a_com, resolved_ip("address"), whois_org("org"),
                       safety_of("200 no matches") >> >>
        /\ started = 1
        /\ pc = [ c \in Calls |-> IF c = 1 THEN "done" ELSE "idle" ]
        /\ dom = [ c \in Calls |-> IF c = 1 THEN a_com ELSE <<>> ]
        /\ now = [ c \in Calls |-> IF c = 1 THEN FirstVisit ELSE 0 ]
        /\ data = [ c \in Calls |-> NoObj ]
        /\ tmp = [ c \in Calls |-> 0 ]
        /\ ret = [ c \in Calls |-> "" ]
        /\ accepted = first
        /\ enrichPasses = first
        /\ remoteCalls = [ k \in Kinds |-> first ]
        /\ answer = [ c \in Calls |-> "" ]
        /\ snap = NoSnap
        /\ overlapped = FALSE
        /\ search_var \in SearchTexts
        /\ live_filter \in BOOLEAN
        /\ InitTable

NextUI == Next \/ dashboard

SpecUI == InitUI /\ [][NextUI]_vars

\* ------------------------------------------------ the dashboard alone ----
\* The dashboard's handlers over a store that is given: up to MaxRecords
\* enriched records, inserted in any order, their visits and last_seen
\* drawn from Seen; the sniffer is at rest.
SnapDomains == Domains \cup { << "c", "com" >> }

\* (visits, last_seen) of a given record.
Seen == { << 1, 1 >>, << 3, 5 >>, << 2, 20 >> }

SnapRecords ==
    { [ visits |-> s[1], ip |-> resolved_ip("address"),
        org |-> whois_org("org"), safety |-> safety_of("200 no matches"),
        first_seen |-> 1, last_seen |-> s[2] ] : s \in Seen }

\* The insertion orders of the stores there can be.
SnapOrders ==
    { o \in UNION { [ 1..n -> SnapDomains ] : n \in 0..MaxRecords } :
        \A a, b \in 1..Len(o) : o[a] = o[b] => a = b }

InitSnap ==
    /\ order \in SnapOrders
    /\ visited_sites = [ d \in Range(order) |->
                           CHOOSE n \in 1..Len(order) : order[n] = d ]
    /\ heap \in { h \in [ Objs -> SnapRecords \cup { DefaultRecord } ] :
                    \A o \in Objs : h[o] = DefaultRecord <=> o > Len(order) }
    /\ clock = 0
    /\ apiKey = "key"
    /\ varied = "ip"
    /\ ip_cache = [ d \in Range(order) |-> resolved_ip("address") ]
    /\ whois_cache = [ d \in Range(order) |-> whois_org("org") ]
    /\ safety_cache = [ d \in Range(order) |-> safety_of("200 no matches") ]
    /\ log = <<>>
    /\ started = 0
    /\ pc = [ c \in Calls |-> "idle" ]
    /\ dom = [ c \in Calls |-> <<>> ]
    /\ now = [ c \in Calls |-> 0 ]
    /\ data = [ c \in Calls |-> NoObj ]
    /\ tmp = [ c \in Calls |-> 0 ]
    /\ ret = [ c \in Calls |-> "" ]
    /\ accepted = [ d \in Domains |-> 0 ]
    /\ enrichPasses = [ d \in Domains |-> 0 ]
    /\ remoteCalls = [ k \in Kinds |-> [ d \in Domains |-> 0 ] ]
    /\ answer = [ c \in Calls |-> "" ]
    /\ snap = NoSnap
    /\ overlapped = FALSE
    /\ InitDashboard

NextSnap == dashboard \/ on_search_key \/ clear_search \/ toggle_live_filter

SpecSnap == InitSnap /\ [][NextSnap]_vars

\* ============================================================ claims ====
\* The visits counter of a domain as a reader of the store sees it.
Visits(d) ==
    IF d \in DOMAIN visited_sites THEN heap[visited_sites[d]].visits ELSE 0

\* C1 to C5 and C10 are stated for the runs in which every clock reading is
\* at least MIN_INTERVAL and no call ends by an exception: what they are
\* checked for is the interleaving of the threads alone.

\* The calls for d that have read the clock.
Timed(d) == { c \in Calls : dom[c] = d /\ pc[c] \notin {"idle", "L151"} }

Quiet(d) == \A c \in Calls : dom[c] = d => ~InProgress(c)

NoneRaised == \A c \in Calls : pc[c] # "raised"

\* Every clock reading so far is at least MIN_INTERVAL, as the readings of
\* a wall clock are (C6 and C7 are about the readings below it).
PastEpoch ==
    \A c \in Calls : pc[c] \notin {"idle", "L151"} => now[c] >= MIN_INTERVAL

\* C1: when all the log_visit calls made so far for a domain have timestamps
\* less than MIN_INTERVAL apart, the domain's visits counter is at most 1,
\* however the calls' threads interleave.
C1_OneIncrementPerWindow ==
    \A d \in Domains :
        ( /\ PastEpoch /\ NoneRaised
          /\ \A c \in Calls : dom[c] = d => pc[c] # "L151"
          /\ \A c1, c2 \in Timed(d) : now[c1] - now[c2] < MIN_INTERVAL )
        => Visits(d) <= 1

\* C2: the first-visit enrichment pass (the visits == 1 branch) is taken at
\* most once per domain over the whole run.
C2_EnrichmentAtMostOnce ==
    (PastEpoch /\ NoneRaised)
    => \A d \in Domains : enrichPasses[d] <= 1

\* C3: no update of the counter is lost: whenever no log_visit call is in
\* progress, visits of every domain equals the number of calls for it that
\* passed the debounce check.
C3_NoLostUpdate ==
    (PastEpoch /\ \A c \in Calls : pc[c] \in {"idle", "done"})
    => \A d \in Domains : Visits(d) = accepted[d]

\* C4: once every log_visit thread for a domain with visits >= 1 has
\* finished, the domain got exactly one enrichment pass and its ip, org and
\* safety are not the initial defaults.
C4_EnrichedExactlyOnce ==
    \A d \in Domains :
        (PastEpoch /\ NoneRaised /\ Quiet(d) /\ Visits(d) >= 1)
        => /\ enrichPasses[d] = 1
           /\ heap[visited_sites[d]].ip # "N/A"
           /\ heap[visited_sites[d]].org # "N/A"
           /\ heap[visited_sites[d]].safety # "Not Checked"

\* C5: for every domain and lookup kind the remote call (gethostbyname,
\* whois.whois, requests.post) is issued at most once.
C5_OneRemoteCallPerKind ==
    (PastEpoch /\ NoneRaised)
    => \A k \in Kinds : \A d \in Domains : remoteCalls[k][d] <= 1

\* C6: from an empty store, two sequential log_visit calls for one domain at
\* clock values t1 <= t2 leave visits = 1 when t2 - t1 < MIN_INTERVAL and
\* visits = 2 when t2 - t1 > MIN_INTERVAL, for every t1, 0 included.
C6_DebounceOfTwoCalls ==
    ( /\ started = 2 /\ ~overlapped
      /\ pc[1] = "done" /\ pc[2] = "done"
      /\ dom[1] = dom[2] )
    => /\ now[2] - now[1] < MIN_INTERVAL => Visits(dom[1]) = 1
       /\ now[2] - now[1] > MIN_INTERVAL => Visits(dom[1]) = 2

\* C7: a log_visit call that the debounce rule discards leaves the whole
\* aggregate as it was when the call started: the recorded domains, every
\* field of every record, the three caches and the log (stated for a call
\* that runs alone, so that nothing else changes the aggregate meanwhile).
C7_DiscardChangesNothing ==
    [][ \A c \in Calls :
          (snap.call = c /\ pc[c] = "L154" /\ pc'[c] = "done")
          => Aggregate' = snap.agg ]_vars

\* C8: with no API credential configured (GOOGLE_API_KEY absent, the key is
\* None) requests.post is never called and no record is given a safety
\* value other than "API Key Missing".
C8_NoKeyNoPost ==
    apiKey = "None"
    => /\ \A d \in Domains : remoteCalls["safety"][d] = 0
       /\ \A d \in DOMAIN visited_sites :
             heap[visited_sites[d]].safety \in {"Not Checked", "API Key Missing"}

\* C9: no failure of an enrichment collaborator aborts an ingest: no
\* log_visit call ever ends by an exception.
C9_EnrichmentNeverRaises ==
    \A c \in Calls : pc[c] # "raised"

\* C10: in every state, a record for a domain exists in visited_sites if and
\* only if a visit was accepted for it, and every record has visits >= 1.
C10_RecordIffAccepted ==
    PastEpoch
    => \A d \in Domains :
          /\ d \in DOMAIN visited_sites <=> accepted[d] >= 1
          /\ d \in DOMAIN visited_sites => Visits(d) >= 1

\* C11: in every state and for every record, first_seen <= last_seen,
\* however the log_visit calls for the domain interleave.
C11_FirstSeenBeforeLastSeen ==
    (PastEpoch /\ NoneRaised)
    => \A d \in DOMAIN visited_sites :
          Store[d].first_seen <= Store[d].last_seen

\* The first accepted visit has set the record's enrichment fields.
Enriched(r) ==
    /\ r.first_seen # 0
    /\ r.ip # "N/A" /\ r.org # "N/A" /\ r.safety # "Not Checked"

\* C12: once the first accepted visit has set a record's first_seen, ip, org
\* and safety, no later step of any log_visit call changes them (stated for
\* a record that stays the one stored under its key).
C12_EnrichmentImmutable ==
    [][ (PastEpoch /\ NoneRaised)' =>
          \A d \in DOMAIN visited_sites :
             (Enriched(Store[d]) /\ visited_sites'[d] = visited_sites[d]) =>
                /\ Store'[d].first_seen = Store[d].first_seen
                /\ Store'[d].ip = Store[d].ip
                /\ Store'[d].org = Store[d].org
                /\ Store'[d].safety = Store[d].safety ]_vars

\* C13: with a credential configured and no cached entry, check_safety
\* returns "Safe" exactly for an HTTP success without matches, "Malicious"
\* exactly for an HTTP success with matches, and "API Error" for a transport
\* error or timeout; a response that is not an HTTP success is never
\* reported as "Malicious".
C13_SafetyClassification ==
    \A c \in Calls :
       (pc[c] = "L146" /\ apiKey = "key") =>
          /\ ret[c] = "Safe" <=> answer[c] = "200 no matches"
          /\ ret[c] = "Malicious" <=> answer[c] = "200 matches"
          /\ answer[c] = "RequestException" => ret[c] = "API Error"
          /\ answer[c] = "500" => ret[c] # "Malicious"

\* A row (domain, visits, ip, org, safety, first seen, ...) that shows a
\* counted visit together with a field the first visit has not set yet.
TornRow(row) ==
    /\ row[2] >= 1
    /\ \/ row[3] = DefaultRecord.ip
       \/ row[4] = DefaultRecord.org
       \/ row[5] = DefaultRecord.safety
       \/ row[6] = strftime(DefaultRecord.first_seen)

\* C14: a snapshot read that runs concurrently with log_visit never observes
\* a torn record: no row of the table and no row of a report shows
\* visits >= 1 together with first_seen still 0 or with ip, org or safety
\* still at their defaults.
C14_NoTornRecord ==
    NoneRaised =>
       /\ \A n \in 1..Len(tree) : ~TornRow(tree[n])
       /\ \A n \in 1..Len(report_data) : ~TornRow(report_data[n])

\* C15: the snapshot operations are read-only: a step of update_data (with
\* any search term and either live-filter setting) or of
\* get_data_as_dataframe leaves visited_sites (its keys and every field of
\* every record) and the three caches unchanged, and creates no record.
C15_SnapshotReadOnly ==
    [][ ui' # ui =>
          /\ visited_sites' = visited_sites
          /\ order' = order
          /\ Store' = Store
          /\ ip_cache' = ip_cache
          /\ whois_cache' = whois_cache
          /\ safety_cache' = safety_cache ]_vars

\* With a search term typed, the table has been refreshed and a report built
\* while a log_visit call was in progress.
C15_Witness ==
    /\ search_term # <<>>
    /\ tree # <<>>
    /\ df.returned = "DataFrame"
    /\ \E c \in Calls : InProgress(c)

\* The pair's domain contains the search term, case-insensitively.
Matches(pair) == contains(search_term, lower(text(pair[1])))

\* C16: when update_data has built its snapshot, the pairs are all the
\* records of the store in descending order of last_seen, and the filtered
\* snapshot (and with it the table) is the subsequence, in the same order,
\* of the records whose domain contains the search term case-insensitively.
C16_SnapshotOrderAndFilter ==
    ui_pc = "L307" =>
       /\ { sorted_sites[n] : n \in 1..Len(sorted_sites) }
             = { items[n] : n \in 1..Len(items) }
       /\ Len(sorted_sites) = Len(items)
       /\ \A a, b \in 1..Len(sorted_sites) :
             a < b => heap[sorted_sites[a][2]].last_seen
                         >= heap[sorted_sites[b][2]].last_seen
       /\ filtered_sites = SelectSeq(sorted_sites, Matches)
       /\ [ n \in 1..Len(tree) |-> tree[n][1] ]
             = [ n \in 1..Len(filtered_sites) |-> filtered_sites[n][1] ]

\* The VISIT lines of the log for domain d.
VisitLines(d) == Cardinality({ i \in 1..Len(log) : log[i][1] = d })

\* C17: whenever no log_visit call is in progress, the number of VISIT lines
\* for a domain equals the number of calls for it that passed the debounce
\* check; and the log only grows by appending.
C17_OneLinePerAcceptedVisit ==
    (\A c \in Calls : ~InProgress(c))
    => \A d \in Domains : VisitLines(d) = accepted[d]

\* C19: the last_seen of a record never decreases from one state to the
\* next, however the log_visit calls for the domain interleave (stated for
\* a record that stays the one stored under its key).
C19_LastSeenMonotonic ==
    [][ (PastEpoch /\ NoneRaised)' =>
          \A d \in DOMAIN visited_sites :
             visited_sites'[d] = visited_sites[d]
             => Store'[d].last_seen >= Store[d].last_seen ]_vars

\* A non-empty registrable domain: one label and a public suffix, nothing
\* before them.
Registrable(k) ==
    /\ Len(k) >= 2
    /\ \A i \in 1..Len(k) : k[i] # ""
    /\ registered_domain(k) = k

====
